---- MODULE Spec2Model ----
(***************************************************************************)
(* Model of ProviderPDFtoCSV.py: main() runs extract_text_from_pdf,        *)
(* parse_provider_data and write_to_csv in sequence.                       *)
(*                                                                         *)
(* A Python str is modelled as a sequence of one-character strings, so the *)
(* regular expressions and str methods of the source are computed          *)
(* character by character, with the leftmost-match, greedy and lazy rules  *)
(* of Python's re module.                                                  *)
(***************************************************************************)
EXTENDS Integers, Sequences, FiniteSets, TLC

VARIABLES pc,               \* position of main(): which call runs next
          argc,             \* len(sys.argv)
          pdf,              \* the input document: "missing", "corrupt" or "ok"
          doc,              \* the entries printed in the document
          pre,              \* the text printed before the first entry
          raw_text,         \* main: raw_text
          provider_blocks,  \* parse_provider_data: provider_blocks
          idx,              \* parse_provider_data: position of the for loop
          providers,        \* parse_provider_data: providers
          outcome,          \* per block, what the loop body did with it
          raised,           \* number of exceptions raised in the try body
          file,             \* content of the destination path
          file0,            \* content of the destination path before the run
          opened,           \* whether open(output_filename, 'w') was called
          called,           \* functions invoked so far, in order
          exit_status       \* process exit status, -1 while running

vars == <<pc, argc, pdf, doc, pre, raw_text, provider_blocks, idx, providers,
          outcome, raised, file, file0, opened, called, exit_status>>

---------------------------------------------------------------------------
(* Characters and the character classes of Python's re module.             *)

LowerSeq ==
    <<"a","b","c","d","e","f","g","h","i","j","k","l","m",
      "n","o","p","q","r","s","t","u","v","w","x","y","z">>

UpperSeq ==
    <<"A","B","C","D","E","F","G","H","I","J","K","L","M",
      "N","O","P","Q","R","S","T","U","V","W","X","Y","Z">>

Range(s) == {s[i] : i \in 1..Len(s)}

\* \d
Digit == {"0","1","2","3","4","5","6","7","8","9"}

\* \w
WordChar == Range(LowerSeq) \cup Range(UpperSeq) \cup Digit \cup {"_"}

\* \s, and the characters str.strip() and str.split() remove
Whitespace == {" ", "\t", "\n", "\r", "\f"}

\* [\w\s,.'-]
NameChar == WordChar \cup Whitespace \cup {",", ".", "'", "-"}

SetMin(S) == CHOOSE x \in S : \A y \in S : x <= y

SetMax(S) == CHOOSE x \in S : \A y \in S : x >= y

---------------------------------------------------------------------------
(* Literals of the source.                                                 *)

NL == <<"\n">>
NA == <<"N", "/", "A">>
PhoneLabel == <<"P", "h", "o", "n", "e", ":">>
GenderLabel == <<"G", "e", "n", "d", "e", "r", ":">>
LanguagesLabel ==
    <<"L", "a", "n", "g", "u", "a", "g", "e", "s", " ",
      "S", "p", "o", "k", "e", "n", ":">>
SpecialtiesLabel == <<"S", "p", "e", "c", "i", "a", "l", "t", "i", "e", "s", ":">>
GroupAffiliationsLabel ==
    <<"G", "r", "o", "u", "p", " ", "A", "f", "f", "i", "l", "i", "a", "t",
      "i", "o", "n", "s", ":">>
TelemedicineCap == <<"T", "e", "l", "e", "m", "e", "d", "i", "c", "i", "n", "e">>
TelemedicineLow == <<"t", "e", "l", "e", "m", "e", "d", "i", "c", "i", "n", "e">>
MD == <<"M", "D">>
DO == <<"D", "O">>
Male == <<"M", "a", "l", "e">>
Female == <<"F", "e", "m", "a", "l", "e">>
Miles == <<" ", "m", "i", "l", "e", "s">>
CommaSpace == <<",", " ">>
Ampersand == <<" ", "&", " ">>
Dash == <<" ", "-", " ">>

---------------------------------------------------------------------------
(* str methods.                                                            *)

\* s[i:].startswith(lit), 1-based
StartsWithAt(s, lit, i) ==
    /\ i >= 1
    /\ i + Len(lit) - 1 <= Len(s)
    /\ \A j \in 1..Len(lit) : s[i + j - 1] = lit[j]

\* s.find(lit, from): the first position >= from where lit occurs, 0 if none
Find(s, lit, from) ==
    LET S == {i \in from..(Len(s) - Len(lit) + 1) : StartsWithAt(s, lit, i)}
    IN  IF S = {} THEN 0 ELSE SetMin(S)

\* lit in s
Contains(s, lit) == Find(s, lit, 1) # 0

\* s.strip()
Strip(s) ==
    LET nz == {i \in 1..Len(s) : s[i] \notin Whitespace}
    IN  IF nz = {} THEN <<>> ELSE SubSeq(s, SetMin(nz), SetMax(nz))

\* s.lower()
Lower(s) ==
    [i \in 1..Len(s) |->
        IF \E k \in 1..26 : UpperSeq[k] = s[i]
        THEN LowerSeq[CHOOSE k \in 1..26 : UpperSeq[k] = s[i]]
        ELSE s[i]]

RECURSIVE SplitStr(_, _)
\* s.split(sep) for a non-empty separator
SplitStr(s, sep) ==
    LET i == Find(s, sep, 1)
    IN  IF i = 0 THEN <<s>>
        ELSE <<SubSeq(s, 1, i - 1)>>
             \o SplitStr(SubSeq(s, i + Len(sep), Len(s)), sep)

RECURSIVE SplitWs(_)
\* s.split(): the maximal runs of non-whitespace characters
SplitWs(s) ==
    LET nz == {i \in 1..Len(s) : s[i] \notin Whitespace}
    IN  IF nz = {} THEN <<>>
        ELSE LET b == SetMin(nz)
                 ws == {i \in b..Len(s) : s[i] \in Whitespace}
                 e == IF ws = {} THEN Len(s) ELSE SetMin(ws) - 1
             IN  <<SubSeq(s, b, e)>> \o SplitWs(SubSeq(s, e + 1, Len(s)))

RECURSIVE Join(_, _)
\* sep.join(parts)
Join(parts, sep) ==
    IF parts = <<>> THEN <<>>
    ELSE IF Len(parts) = 1 THEN parts[1]
    ELSE parts[1] \o sep \o Join(Tail(parts), sep)

\* s.replace(old, new)
Replace(s, old, new) == Join(SplitStr(s, old), new)

---------------------------------------------------------------------------
(* Regular expressions of parse_provider_data.  A match is a record        *)
(* [found, g1]: whether re.search matched and the text of group 1.         *)

NoMatch == [found |-> FALSE, g1 |-> <<>>]

AllIn(s, a, b, C) == \A j \in a..b : s[j] \in C

\* positions where ", MD" or ", DO" begins, optionally followed by tail
SuffixStarts(s, tail) ==
    {c \in 1..Len(s) : \/ StartsWithAt(s, CommaSpace \o MD \o tail, c)
                       \/ StartsWithAt(s, CommaSpace \o DO \o tail, c)}

\* the length of the run of whitespace that begins at position i
WsRun(s, i) ==
    LET stop == {j \in i..Len(s) : s[j] \notin Whitespace}
    IN  IF stop = {} THEN Len(s) - i + 1 ELSE SetMin(stop) - i

\* the split points of  \n(?=[\w\s,.'-]+, (?:MD|DO)\n)
SplitPoints(text) ==
    LET cands == SuffixStarts(text, NL)
    IN  {p \in 1..Len(text) :
            /\ text[p] = "\n"
            /\ \E c \in cands : c > p + 1 /\ AllIn(text, p + 1, c - 1, NameChar)}

RECURSIVE Pieces(_, _, _)
\* the slices of text between consecutive split points, from position from
Pieces(text, from, points) ==
    IF points = {} THEN <<SubSeq(text, from, Len(text))>>
    ELSE LET p == SetMin(points)
         IN  <<SubSeq(text, from, p - 1)>>
             \o Pieces(text, p + 1, points \ {p})

\* re.split(r'\n(?=[\w\s,.\'-]+, (?:MD|DO)\n)', text)
SplitBlocks(text) == Pieces(text, 1, SplitPoints(text))

\* re.search(r"([\w\s,.'-]+, (?:MD|DO))", block)
name_match(block) ==
    LET cands == SuffixStarts(block, <<>>)
        ok(s, c) == c > s /\ AllIn(block, s, c - 1, NameChar)
        starts == {s \in 1..Len(block) : \E c \in cands : ok(s, c)}
    IN  IF starts = {} THEN NoMatch
        ELSE LET s == SetMin(starts)
                 c == SetMax({d \in cands : ok(s, d)})
             IN  [found |-> TRUE, g1 |-> SubSeq(block, s, c + 3)]

\* the end of  \(\d{3}\)\s*\d{3}-\d{4}  matched at position i, 0 if no match
PhoneNumberEnd(s, i) ==
    IF /\ i + 4 <= Len(s)
       /\ s[i] = "("
       /\ AllIn(s, i + 1, i + 3, Digit)
       /\ s[i + 4] = ")"
    THEN LET d == i + 5 + WsRun(s, i + 5)
         IN  IF /\ d + 7 <= Len(s)
                /\ AllIn(s, d, d + 2, Digit)
                /\ s[d + 3] = "-"
                /\ AllIn(s, d + 4, d + 7, Digit)
             THEN d + 7 ELSE 0
    ELSE 0

\* re.search(r"Phone:\s*(\(\d{3}\)\s*\d{3}-\d{4})", block)
phone_match(block) ==
    LET at(i) == i + Len(PhoneLabel) + WsRun(block, i + Len(PhoneLabel))
        hits == {i \in 1..Len(block) :
                    /\ StartsWithAt(block, PhoneLabel, i)
                    /\ PhoneNumberEnd(block, at(i)) # 0}
    IN  IF hits = {} THEN NoMatch
        ELSE LET i == SetMin(hits)
             IN  [found |-> TRUE,
                  g1 |-> SubSeq(block, at(i), PhoneNumberEnd(block, at(i)))]

\* re.search(r"Gender:\s*(Male|Female)", block)
gender_match(block) ==
    LET at(i) == i + Len(GenderLabel) + WsRun(block, i + Len(GenderLabel))
        hits == {i \in 1..Len(block) :
                    /\ StartsWithAt(block, GenderLabel, i)
                    /\ \/ StartsWithAt(block, Male, at(i))
                       \/ StartsWithAt(block, Female, at(i))}
    IN  IF hits = {} THEN NoMatch
        ELSE LET i == SetMin(hits)
             IN  [found |-> TRUE,
                  g1 |-> IF StartsWithAt(block, Male, at(i)) THEN Male ELSE Female]

\* re.search(r"Languages Spoken:\s*([^\n]+)", block): \s* is greedy and gives
\* characters back until [^\n]+ can take at least one character
languages_match(block) ==
    LET after(i) == i + Len(LanguagesLabel)
        gs(i) == {g \in after(i)..(after(i) + WsRun(block, after(i))) :
                     g <= Len(block) /\ block[g] # "\n"}
        hits == {i \in 1..Len(block) :
                    StartsWithAt(block, LanguagesLabel, i) /\ gs(i) # {}}
    IN  IF hits = {} THEN NoMatch
        ELSE LET g == SetMax(gs(SetMin(hits)))
                 nl == Find(block, NL, g)
                 e == IF nl = 0 THEN Len(block) ELSE nl - 1
             IN  [found |-> TRUE, g1 |-> SubSeq(block, g, e)]

\* whether  (?:\n\s*\n|Group Affiliations:)  matches at position t
SpecialtiesEndAt(s, t) ==
    \/ /\ t <= Len(s)
       /\ s[t] = "\n"
       /\ \E u \in (t + 1)..(t + WsRun(s, t)) : u <= Len(s) /\ s[u] = "\n"
    \/ StartsWithAt(s, GroupAffiliationsLabel, t)

\* re.search(r"Specialties:\s*([\s\S]*?)(?:\n\s*\n|Group Affiliations:)",
\*           block, re.DOTALL): \s* is greedy, the group is lazy
specialties_block_match(block) ==
    LET after(i) == i + Len(SpecialtiesLabel)
        ends == {t \in 1..Len(block) : SpecialtiesEndAt(block, t)}
        gs(i) == {g \in after(i)..(after(i) + WsRun(block, after(i))) :
                     \E t \in ends : t >= g}
        hits == {i \in 1..Len(block) :
                    StartsWithAt(block, SpecialtiesLabel, i) /\ gs(i) # {}}
    IN  IF hits = {} THEN NoMatch
        ELSE LET g == SetMax(gs(SetMin(hits)))
                 t == SetMin({u \in ends : u >= g})
             IN  [found |-> TRUE, g1 |-> SubSeq(block, g, t - 1)]

\* re.search(r"(?:MD|DO)\s*\n([\s\S]*?)Phone:", block): \s* is greedy and
\* gives characters back until \n follows, the group is lazy
header_block_match(block) ==
    LET after(i) == i + 2
        nls(i) == {n \in after(i)..(after(i) + WsRun(block, after(i)) - 1) :
                      block[n] = "\n" /\ Find(block, PhoneLabel, n + 1) # 0}
        hits == {i \in 1..Len(block) :
                    /\ StartsWithAt(block, MD, i) \/ StartsWithAt(block, DO, i)
                    /\ nls(i) # {}}
    IN  IF hits = {} THEN NoMatch
        ELSE LET n == SetMax(nls(SetMin(hits)))
             IN  [found |-> TRUE,
                  g1 |-> SubSeq(block, n + 1, Find(block, PhoneLabel, n + 1) - 1)]

\* s.rstrip()
RStrip(s) ==
    LET nz == {i \in 1..Len(s) : s[i] \notin Whitespace}
    IN  IF nz = {} THEN <<>> ELSE SubSeq(s, 1, SetMax(nz))

RECURSIVE SubCommas(_)
\* re.sub(r'\s*,\s*', ' - ', s): each comma is replaced together with the
\* whitespace on both sides of it
SubCommas(s) ==
    LET c == Find(s, <<",">>, 1)
    IN  IF c = 0 THEN s
        ELSE RStrip(SubSeq(s, 1, c - 1)) \o Dash
             \o SubCommas(SubSeq(s, c + 1 + WsRun(s, c + 1), Len(s)))

\* the pattern without the fraction: ^\d+ miles$
IsDistance_whole(part) ==
    LET sp == Find(part, Miles, 1)
    IN  /\ sp > 1
        /\ AllIn(part, 1, sp - 1, Digit)
        /\ sp + Len(Miles) - 1 = Len(part)

\* re.match(r'^\d+\.\d+ miles$', part), part being a stripped line
IsDistance(part) ==
    LET dot == Find(part, <<".">>, 1)
        sp == Find(part, Miles, 1)
    IN  /\ dot > 1
        /\ sp > dot + 1
        /\ AllIn(part, 1, dot - 1, Digit)
        /\ AllIn(part, dot + 1, sp - 1, Digit)
        /\ sp + Len(Miles) - 1 = Len(part)

---------------------------------------------------------------------------
(* The body of the try statement of parse_provider_data, for one block.    *)

\* name: ' '.join(name_match.group(1).replace(',', '').split())
CleanName(g) == Join(SplitWs(Replace(g, <<",">>, <<>>)), <<" ">>)

\* languages, from the text of languages_match.group(1)
CleanLanguages(g) ==
    LET languages_text == Strip(g)
        cut == IF Contains(languages_text, SpecialtiesLabel)
               THEN Strip(SplitStr(languages_text, SpecialtiesLabel)[1])
               ELSE languages_text
    IN  Replace(cut, CommaSpace, Ampersand)

\* [line.strip() for line in lines]
StripAll(lines) == [i \in 1..Len(lines) |-> Strip(lines[i])]

\* specialties, from the text of specialties_block_match.group(1)
CleanSpecialties(g) ==
    LET specialties_raw == Strip(g)
        specialties_text == Join(StripAll(SplitStr(specialties_raw, NL)), <<" ">>)
    IN  Strip(SubCommas(specialties_text))

\* header_lines: the stripped non-empty lines of the header block
HeaderLines(g) ==
    LET NonEmpty(l) == Strip(l) # <<>>
    IN  StripAll(SelectSeq(SplitStr(Strip(g), NL), NonEmpty))

\* any("Telemedicine" in s for s in header_lines)
HasTelemedicine(header_lines) ==
    \E i \in 1..Len(header_lines) : Contains(header_lines[i], TelemedicineCap)

\* next(line for line in header_lines if "telemedicine" not in line.lower()),
\* "N/A" on StopIteration
FirstNonTelemedicine(header_lines) ==
    LET S == {i \in 1..Len(header_lines) :
                 ~Contains(Lower(header_lines[i]), TelemedicineLow)}
    IN  IF S = {} THEN NA ELSE header_lines[SetMin(S)]

\* service_type and medical_group
HeaderFields(block) ==
    LET m == header_block_match(block)
        header_lines == HeaderLines(m.g1)
        NotDistance(part) == ~IsDistance(part)
    IN  IF ~m.found THEN [service_type |-> <<>>, medical_group |-> <<>>]
        ELSE IF HasTelemedicine(header_lines)
        THEN [service_type |-> TelemedicineCap,
              medical_group |-> FirstNonTelemedicine(header_lines)]
        ELSE IF header_lines # <<>>
        THEN [service_type |-> Join(SelectSeq(Tail(header_lines), NotDistance), <<" ">>),
              medical_group |-> header_lines[1]]
        ELSE [service_type |-> <<>>, medical_group |-> <<>>]

\* the dictionary with an empty string, not 'N/A', for languages not found
ExtractFields_empty(block) ==
    LET nm == name_match(block)
        pm == phone_match(block)
        gm == gender_match(block)
        lm == languages_match(block)
        sm == specialties_block_match(block)
        h  == HeaderFields(block)
    IN  [Name            |-> IF nm.found THEN CleanName(nm.g1) ELSE NA,
         ServiceType     |-> h.service_type,
         MedicalGroup    |-> h.medical_group,
         Phone           |-> IF pm.found THEN Strip(pm.g1) ELSE NA,
         Gender          |-> IF gm.found THEN Strip(gm.g1) ELSE NA,
         LanguagesSpoken |-> IF lm.found THEN CleanLanguages(lm.g1) ELSE <<>>,
         Specialties     |-> IF sm.found THEN CleanSpecialties(sm.g1) ELSE NA]

\* the dictionary appended to providers for an accepted block
ExtractFields(block) ==
    LET nm == name_match(block)
        pm == phone_match(block)
        gm == gender_match(block)
        lm == languages_match(block)
        sm == specialties_block_match(block)
        h  == HeaderFields(block)
    IN  [Name            |-> IF nm.found THEN CleanName(nm.g1) ELSE NA,
         ServiceType     |-> h.service_type,
         MedicalGroup    |-> h.medical_group,
         Phone           |-> IF pm.found THEN Strip(pm.g1) ELSE NA,
         Gender          |-> IF gm.found THEN Strip(gm.g1) ELSE NA,
         LanguagesSpoken |-> IF lm.found THEN CleanLanguages(lm.g1) ELSE NA,
         Specialties     |-> IF sm.found THEN CleanSpecialties(sm.g1) ELSE NA]

\* the test with "and" in place of "or": one label is enough to pass
PassesGate_either(block) == Contains(block, PhoneLabel) \/ Contains(block, GenderLabel)

\* the test of the if statement that skips a block
PassesGate(block) == Contains(block, PhoneLabel) /\ Contains(block, GenderLabel)

---------------------------------------------------------------------------
(* write_to_csv: csv.DictWriter with the default dialect.                  *)

fieldnames ==
    <<<<"N", "a", "m", "e">>,
      <<"S", "e", "r", "v", "i", "c", "e", " ", "T", "y", "p", "e">>,
      <<"M", "e", "d", "i", "c", "a", "l", " ", "G", "r", "o", "u", "p">>,
      <<"P", "h", "o", "n", "e">>,
      <<"G", "e", "n", "d", "e", "r">>,
      <<"L", "a", "n", "g", "u", "a", "g", "e", "s", " ", "S", "p", "o", "k", "e", "n">>,
      <<"S", "p", "e", "c", "i", "a", "l", "t", "i", "e", "s">>>>

\* the values of a record in the order of fieldnames
RowOf(r) ==
    <<r.Name, r.ServiceType, r.MedicalGroup, r.Phone, r.Gender,
      r.LanguagesSpoken, r.Specialties>>

\* QUOTE_MINIMAL: a field with a delimiter, a quote or a line break is quoted
QuoteField(f) ==
    IF \E i \in 1..Len(f) : f[i] \in {",", "\"", "\n", "\r"}
    THEN <<"\"">> \o Replace(f, <<"\"">>, <<"\"", "\"">>) \o <<"\"">>
    ELSE f

\* one written row, with the line terminator of the dialect
CsvRow(fields) ==
    Join([i \in 1..Len(fields) |-> QuoteField(fields[i])], <<",">>) \o <<"\r", "\n">>

\* the rows writeheader() and writerows(providers_data) write
CsvRows(providers_data) ==
    <<CsvRow(fieldnames)>>
    \o [i \in 1..Len(providers_data) |-> CsvRow(RowOf(providers_data[i]))]

\* the text of the first k rows
CsvText(rows, k) == Join(SubSeq(rows, 1, k), <<>>)

---------------------------------------------------------------------------
(* The input document.  An entry is printed as a name line, the header     *)
(* lines, then the Phone, Gender, Languages Spoken and Specialties lines;  *)
(* each part is one of a few printed forms.                                *)

\* the most printed items (preamble lines and entries) of a document
MaxEntries == 3

\* the most exceptions raised in the try body during one run
MaxRaises == 1

NameLine(k) ==
    CASE k = "smith" -> <<"S", "m", "i", "t", "h", ",", " ", "J", "o", "h", "n", ",", " ", "M", "D">>
      [] k = "doe"   -> <<"D", "o", "e", ",", " ", "J", "a", "n", "e", ",", " ", "D", "O">>

AcmeClinic == <<"A", "c", "m", "e", " ", "C", "l", "i", "n", "i", "c">>
MainSt == <<"1", "2", " ", "M", "a", "i", "n", " ", "S", "t", ",", " ", "O", "r", "l", "a", "n", "d", "o">>
HalfMile == <<"0", ".", "5", " ", "m", "i", "l", "e", "s">>
TenMiles == <<"1", "0", ".", "2", "5", " ", "m", "i", "l", "e", "s">>
FiveMiles == <<"5", " ", "m", "i", "l", "e", "s">>
Suite == <<"S", "u", "i", "t", "e", " ", "2">>
TelemedicineUpper == <<"T", "E", "L", "E", "M", "E", "D", "I", "C", "I", "N", "E">>

\* the header lines as printed
HeaderPrinted(k) ==
    CASE k = "addr"      -> <<AcmeClinic, MainSt, HalfMile>>
      [] k = "near"      -> <<<<" ">> \o AcmeClinic, FiveMiles, <<>>, TenMiles,
                               Suite \o <<" ">>>>
      [] k = "tele"      -> <<AcmeClinic, TelemedicineCap>>
      [] k = "teleonly"  -> <<TelemedicineCap>>
      [] k = "teleupper" -> <<AcmeClinic, TelemedicineUpper>>
      [] k = "none"      -> <<>>

PhonePrinted(k) ==
    CASE k = "ok"   -> <<PhoneLabel \o <<" ", "(", "5", "5", "5", ")", " ", "1", "2", "3", "-", "4", "5", "6", "7">>>>
      [] k = "bad"  -> <<PhoneLabel \o <<" ", "5", "5", "5", "-", "1", "2", "3", "4">>>>
      [] k = "wrapped" -> <<PhoneLabel \o <<" ", "(", "5", "5", "5", ")">>, <<"1", "2", "3", "-", "4", "5", "6", "7">>>>
      [] k = "none" -> <<>>

GenderPrinted(k) ==
    CASE k = "male"   -> <<GenderLabel \o <<" ">> \o Male>>
      [] k = "female" -> <<GenderLabel \o <<" ">> \o Female>>
      [] k = "bad"    -> <<GenderLabel \o <<" ", "U", "n", "k", "n", "o", "w", "n">>>>
      [] k = "none"   -> <<>>

English == <<"E", "n", "g", "l", "i", "s", "h">>
Spanish == <<"S", "p", "a", "n", "i", "s", "h">>
Cardiology == <<"C", "a", "r", "d", "i", "o", "l", "o", "g", "y">>
Pediatrics == <<"P", "e", "d", "i", "a", "t", "r", "i", "c", "s">>
AcmeHealth == <<"A", "c", "m", "e", " ", "H", "e", "a", "l", "t", "h">>

\* the Languages Spoken line; "bleed" is the line that the next line of the
\* entry was merged onto
LanguagesPrinted(k) ==
    CASE k \in {"two", "bleed"} ->
             <<LanguagesLabel \o <<" ">> \o English \o CommaSpace \o Spanish>>
      [] k = "empty" -> <<LanguagesLabel>>
      [] k = "none"  -> <<>>

\* the Specialties lines and what follows them in the entry
SpecialtiesPrinted(k) ==
    CASE k = "blank" -> <<SpecialtiesLabel \o <<" ">> \o Cardiology \o <<",">>,
                          Pediatrics, <<>>>>
      [] k = "affil" -> <<SpecialtiesLabel \o <<" ">> \o Cardiology \o CommaSpace \o Pediatrics,
                          GroupAffiliationsLabel \o <<" ">> \o AcmeHealth>>
      [] k = "last"  -> <<SpecialtiesLabel \o <<" ">> \o Cardiology \o CommaSpace \o Pediatrics>>
      [] k = "affilonly" -> <<GroupAffiliationsLabel \o <<" ">> \o AcmeHealth>>
      [] k = "none"  -> <<>>

\* the printed lines of an entry
EntryLines(e) ==
    LET l == LanguagesPrinted(e.lang)
        s == SpecialtiesPrinted(e.spec)
        tail == IF e.lang = "bleed" /\ s # <<>>
                THEN <<l[1] \o <<" ">> \o s[1]>> \o Tail(s)
                ELSE l \o s
    IN  <<NameLine(e.name)>> \o HeaderPrinted(e.hdr) \o PhonePrinted(e.phone)
        \o GenderPrinted(e.gender) \o tail

Base == [name |-> "smith", hdr |-> "addr", phone |-> "ok", gender |-> "male",
         lang |-> "two", spec |-> "affil"]

\* the entry as printed at position i of the document: the entries at even
\* positions are those of another provider
AtPosition(e, i) ==
    IF i % 2 = 1 THEN e
    ELSE [e EXCEPT !.name = "doe",
                   !.gender = IF e.gender = "male" THEN "female" ELSE e.gender]

\* the entries printed the usual way
Plain == {AtPosition(Base, i) : i \in {1, 2}}

\* the ways to print one part of an entry another way
Variants ==
    {[Base EXCEPT !.hdr = k] : k \in {"near", "tele", "teleonly", "teleupper", "none"}}
    \cup {[Base EXCEPT !.phone = k] : k \in {"bad", "wrapped", "none"}}
    \cup {[Base EXCEPT !.gender = k] : k \in {"bad", "none"}}
    \cup {[Base EXCEPT !.lang = k] : k \in {"none", "bleed", "empty"}}
    \cup {[Base EXCEPT !.spec = k] : k \in {"blank", "last", "none"}}
    \cup {[Base EXCEPT !.lang = "empty", !.spec = "affilonly"]}

\* the documents: up to MaxEntries entries, at most one of them (the j-th)
\* not printed the usual way
Docs ==
    UNION {{[i \in 1..n |-> AtPosition(IF i = j THEN v ELSE Base, i)] :
               j \in 0..n, v \in Variants}
           : n \in 0..MaxEntries}

\* the lines printed before the first entry
Preambles == {<<>>, <<<<"P", "r", "o", "v", "i", "d", "e", "r", " ", "D", "i", "r", "e", "c", "t", "o", "r", "y">>>>}

RECURSIVE Flatten(_)
Flatten(ss) == IF ss = <<>> THEN <<>> ELSE Head(ss) \o Flatten(Tail(ss))

\* page.extract_text() of the only page: the printed lines, one per line
PageText(p, d) == Join(p \o Flatten([i \in 1..Len(d) |-> EntryLines(d[i])]), NL)

\* the pages of the document
Pages(p, d) == <<PageText(p, d)>>

RECURSIVE ReadPages(_)
\* the loop of extract_text_from_pdf: full_text += page.extract_text() + "\n"
ReadPages(pages) ==
    IF pages = <<>> THEN <<>>
    ELSE Head(pages) \o NL \o ReadPages(Tail(pages))

---------------------------------------------------------------------------
(* The run of main().                                                      *)

\* a path with a file that holds the text
FileWith(text) == [exists |-> TRUE, text |-> text]

\* a path without a file
Absent == [exists |-> FALSE, text |-> <<>>]

\* a destination file left by an earlier run
OldFile == FileWith(CsvText(<<CsvRow(<<AcmeClinic>>)>>, 1))

Init ==
    /\ pc = "main"
    /\ argc \in {2, 3}
    /\ pdf \in {"ok", "missing", "corrupt"}
    /\ pre \in Preambles
    /\ doc \in Docs
    /\ Len(pre) + Len(doc) <= MaxEntries
    /\ (argc # 3 \/ pdf # "ok") => (pre = <<>> /\ doc = <<>>)
    /\ raw_text = <<>>
    /\ provider_blocks = <<>>
    /\ idx = 0
    /\ providers = <<>>
    /\ outcome = <<>>
    /\ raised = 0
    /\ file0 \in {Absent, OldFile}
    /\ file = file0
    /\ opened = FALSE
    /\ called = <<>>
    /\ exit_status = -1

\* sys.exit(1)
Exit(status) ==
    /\ pc' = "exit"
    /\ exit_status' = status

\* main: the argument count is wrong
main_usage ==
    /\ pc = "main"
    /\ argc # 3
    /\ Exit(1)
    /\ UNCHANGED <<argc, pdf, doc, pre, raw_text, provider_blocks, idx,
                   providers, outcome, raised, file, file0, opened, called>>

\* main: the arguments are read and extract_text_from_pdf is called
main_start ==
    /\ pc = "main"
    /\ argc = 3
    /\ pc' = "extract"
    /\ called' = Append(called, "extract_text_from_pdf")
    /\ UNCHANGED <<argc, pdf, doc, pre, raw_text, provider_blocks, idx,
                   providers, outcome, raised, file, file0, opened, exit_status>>

\* extract_text_from_pdf returns the text of all pages
extract_ok ==
    /\ pc = "extract"
    /\ pdf = "ok"
    /\ raw_text' = ReadPages(Pages(pre, doc))
    /\ pc' = "parse"
    /\ UNCHANGED <<argc, pdf, doc, pre, provider_blocks, idx, providers,
                   outcome, raised, file, file0, opened, called, exit_status>>

\* the except clause without sys.exit: the empty text is returned
extract_not_found_returns ==
    /\ pc = "extract"
    /\ pdf = "missing"
    /\ raw_text' = <<>>
    /\ pc' = "parse"
    /\ UNCHANGED <<argc, pdf, doc, pre, provider_blocks, idx, providers,
                   outcome, raised, file, file0, opened, called, exit_status>>

\* extract_text_from_pdf: open() raises FileNotFoundError
extract_not_found ==
    /\ pc = "extract"
    /\ pdf = "missing"
    /\ Exit(1)
    /\ UNCHANGED <<argc, pdf, doc, pre, raw_text, provider_blocks, idx,
                   providers, outcome, raised, file, file0, opened, called>>

\* extract_text_from_pdf: reading the document raises another exception
extract_error ==
    /\ pc = "extract"
    /\ pdf = "corrupt"
    /\ Exit(1)
    /\ UNCHANGED <<argc, pdf, doc, pre, raw_text, provider_blocks, idx,
                   providers, outcome, raised, file, file0, opened, called>>

\* parse_provider_data is called and splits the text into blocks
parse_split ==
    /\ pc = "parse"
    /\ provider_blocks' = SplitBlocks(raw_text)
    /\ providers' = <<>>
    /\ idx' = 1
    /\ pc' = "loop"
    /\ called' = Append(called, "parse_provider_data")
    /\ UNCHANGED <<argc, pdf, doc, pre, raw_text, outcome, raised, file,
                   file0, opened, exit_status>>

\* loop body: the block fails the test of the if statement, continue
loop_skip ==
    /\ pc = "loop"
    /\ idx <= Len(provider_blocks)
    /\ ~PassesGate(provider_blocks[idx])
    /\ outcome' = Append(outcome, "rejected")
    /\ idx' = idx + 1
    /\ UNCHANGED <<pc, argc, pdf, doc, pre, raw_text, provider_blocks,
                   providers, raised, file, file0, opened, called, exit_status>>

\* loop body: the try body completes and appends the record
loop_append ==
    /\ pc = "loop"
    /\ idx <= Len(provider_blocks)
    /\ PassesGate(provider_blocks[idx])
    /\ providers' = Append(providers, ExtractFields(provider_blocks[idx]))
    /\ outcome' = Append(outcome, "accepted")
    /\ idx' = idx + 1
    /\ UNCHANGED <<pc, argc, pdf, doc, pre, raw_text, provider_blocks,
                   raised, file, file0, opened, called, exit_status>>

\* the try statement around the loop, not inside it: the first exception
\* ends the loop
loop_raise_break ==
    /\ pc = "loop"
    /\ idx <= Len(provider_blocks)
    /\ PassesGate(provider_blocks[idx])
    /\ raised < MaxRaises
    /\ raised' = raised + 1
    /\ outcome' = Append(outcome, "raised")
    /\ idx' = Len(provider_blocks) + 1
    /\ UNCHANGED <<pc, argc, pdf, doc, pre, raw_text, provider_blocks,
                   providers, file, file0, opened, called, exit_status>>

\* loop body: the try body raises, the except clause reports the block and
\* the loop goes on
loop_raise ==
    /\ pc = "loop"
    /\ idx <= Len(provider_blocks)
    /\ PassesGate(provider_blocks[idx])
    /\ raised < MaxRaises
    /\ raised' = raised + 1
    /\ outcome' = Append(outcome, "raised")
    /\ idx' = idx + 1
    /\ UNCHANGED <<pc, argc, pdf, doc, pre, raw_text, provider_blocks,
                   providers, file, file0, opened, called, exit_status>>

\* the loop is over: parse_provider_data returns and write_to_csv is called
loop_end ==
    /\ pc = "loop"
    /\ idx > Len(provider_blocks)
    /\ pc' = "write"
    /\ called' = Append(called, "write_to_csv")
    /\ UNCHANGED <<argc, pdf, doc, pre, raw_text, provider_blocks, idx,
                   providers, outcome, raised, file, file0, opened, exit_status>>

\* write_to_csv without the early return: the file is opened and gets the
\* header
write_none_header ==
    /\ pc = "write"
    /\ providers = <<>>
    /\ opened' = TRUE
    /\ file' = FileWith(CsvText(CsvRows(providers), 1))
    /\ pc' = "done"
    /\ exit_status' = 0
    /\ UNCHANGED <<argc, pdf, doc, pre, raw_text, provider_blocks, idx,
                   providers, outcome, raised, file0, called>>

\* write_to_csv: no records, return without opening the file
write_none ==
    /\ pc = "write"
    /\ providers = <<>>
    /\ pc' = "done"
    /\ exit_status' = 0
    /\ UNCHANGED <<argc, pdf, doc, pre, raw_text, provider_blocks, idx,
                   providers, outcome, raised, file, file0, opened, called>>

\* write_to_csv: the file is opened, the header and all rows are written
write_rows ==
    /\ pc = "write"
    /\ providers # <<>>
    /\ opened' = TRUE
    /\ file' = FileWith(CsvText(CsvRows(providers), Len(providers) + 1))
    /\ pc' = "done"
    /\ exit_status' = 0
    /\ UNCHANGED <<argc, pdf, doc, pre, raw_text, provider_blocks, idx,
                   providers, outcome, raised, file0, called>>

\* write_to_csv: open() raises IOError, the destination is not touched
write_open_error ==
    /\ pc = "write"
    /\ providers # <<>>
    /\ opened' = TRUE
    /\ Exit(1)
    /\ UNCHANGED <<argc, pdf, doc, pre, raw_text, provider_blocks, idx,
                   providers, outcome, raised, file, file0, called>>

\* write_to_csv: the file is opened (and truncated), then a write raises
\* IOError after some of the rows
write_io_error ==
    /\ pc = "write"
    /\ providers # <<>>
    /\ opened' = TRUE
    /\ \E k \in 0..Len(providers) :
           file' = FileWith(CsvText(CsvRows(providers), k))
    /\ Exit(1)
    /\ UNCHANGED <<argc, pdf, doc, pre, raw_text, provider_blocks, idx,
                   providers, outcome, raised, file0, called>>

Next ==
    \/ main_usage
    \/ main_start
    \/ extract_ok
    \/ extract_not_found
    \/ extract_error
    \/ parse_split
    \/ loop_skip
    \/ loop_append
    \/ loop_raise
    \/ loop_end
    \/ write_none
    \/ write_rows
    \/ write_open_error
    \/ write_io_error

Spec == Init /\ [][Next]_vars

---------------------------------------------------------------------------
(* What the document says, read off the printed forms.                     *)

\* the blocks whose record was appended, in order: providers[k] is the
\* record of provider_blocks[AcceptedBlocks[k]]
AcceptedBlocks ==
    LET acc(i) == outcome[i] = "accepted"
    IN  SelectSeq([i \in 1..Len(outcome) |-> i], acc)

\* the blocks that begin with the name line of an entry, in order: the i-th
\* one is the block of entry i of the document
NameBlocks ==
    LET named(i) == \/ StartsWithAt(provider_blocks[i], NameLine("smith"), 1)
                    \/ StartsWithAt(provider_blocks[i], NameLine("doe"), 1)
    IN  SelectSeq([i \in 1..Len(provider_blocks) |-> i], named)

\* the records of entry i: those appended for its block
RecordsOfEntry(i) ==
    {providers[k] : k \in {j \in 1..Len(providers) :
                              AcceptedBlocks[j] = NameBlocks[i]}}

\* the header lines of an entry, trimmed, without the empty ones
HeaderSaid(k) ==
    CASE k = "addr"      -> <<AcmeClinic, MainSt, HalfMile>>
      [] k = "near"      -> <<AcmeClinic, FiveMiles, TenMiles, Suite>>
      [] k = "tele"      -> <<AcmeClinic, TelemedicineCap>>
      [] k = "teleonly"  -> <<TelemedicineCap>>
      [] k = "teleupper" -> <<AcmeClinic, TelemedicineUpper>>
      [] k = "none"      -> <<>>

\* the header lines that contain telemedicine in some letter case
TelemedicineLines == {TelemedicineCap, TelemedicineUpper}

\* the header lines that are distance artifacts
DistanceArtifacts == {HalfMile, TenMiles}

NameSaid(k) ==
    CASE k = "smith" -> <<"S", "m", "i", "t", "h", " ", "J", "o", "h", "n", " ", "M", "D">>
      [] k = "doe"   -> <<"D", "o", "e", " ", "J", "a", "n", "e", " ", "D", "O">>

PhoneSaid == <<"(", "5", "5", "5", ")", " ", "1", "2", "3", "-", "4", "5", "6", "7">>
EnglishAndSpanish == English \o Ampersand \o Spanish
CardiologyPediatrics == Cardiology \o Dash \o Pediatrics

\* the record a plainly printed entry stands for
PlainRecord(e) ==
    [Name            |-> NameSaid(e.name),
     ServiceType     |-> MainSt,
     MedicalGroup    |-> AcmeClinic,
     Phone           |-> PhoneSaid,
     Gender          |-> IF e.gender = "male" THEN Male ELSE Female,
     LanguagesSpoken |-> EnglishAndSpanish,
     Specialties     |-> CardiologyPediatrics]

\* (NNN) NNN-NNNN, with any whitespace after the closing parenthesis
PhoneShape(p) ==
    /\ Len(p) >= 13
    /\ p[1] = "(" /\ p[5] = ")"
    /\ \A i \in {2, 3, 4} : p[i] \in Digit
    /\ \A i \in 6..(Len(p) - 8) : p[i] \in Whitespace
    /\ \A i \in {0, 1, 2, 4, 5, 6, 7} : p[Len(p) - 7 + i] \in Digit
    /\ p[Len(p) - 4] = "-"

RECURSIVE Sorted(_)
\* the numbers of a set in increasing order
Sorted(S) == IF S = {} THEN <<>> ELSE <<SetMin(S)>> \o Sorted(S \ {SetMin(S)})

\* the text between consecutive cut positions of s[a..b]; a cut takes w characters
Slices(s, a, b, cuts, w) ==
    LET c == Sorted(cuts)
    IN  [k \in 1..(Len(c) + 1) |->
            SubSeq(s, IF k = 1 THEN a ELSE c[k - 1] + w,
                      IF k = Len(c) + 1 THEN b ELSE c[k] - 1)]

\* what csv.reader returns for the text of a file: the rows end at the line
\* terminators outside quotes, the fields at the commas outside quotes, and
\* a quoted field stands for its content with doubled quotes undone
ReadCsv(text) ==
    LET quotes == {i \in 1..Len(text) : text[i] = "\""}
        Outside(i) == Cardinality({q \in quotes : q < i}) % 2 = 0
        ends == {i \in 1..(Len(text) - 1) :
                    text[i] = "\r" /\ text[i + 1] = "\n" /\ Outside(i)}
        commas == {i \in 1..Len(text) : text[i] = "," /\ Outside(i)}
        e == Sorted(ends)
        Unquote(f) == IF f # <<>> /\ f[1] = "\""
                      THEN Replace(SubSeq(f, 2, Len(f) - 1), <<"\"", "\"">>, <<"\"">>)
                      ELSE f
        Row(k) == LET a == IF k = 1 THEN 1 ELSE e[k - 1] + 2
                      b == e[k] - 1
                      f == Slices(text, a, b, {c \in commas : a <= c /\ c <= b}, 1)
                  IN  [n \in 1..Len(f) |-> Unquote(f[n])]
    IN  [k \in 1..Len(e) |-> Row(k)]

\* the records as rows, in record order
ProviderRows == [k \in 1..Len(providers) |-> RowOf(providers[k])]

\* write_to_csv has returned or has ended the process
Written == pc = "done" \/ (pc = "exit" /\ called # <<>> /\ called[Len(called)] = "write_to_csv")

---------------------------------------------------------------------------
(* C1: every record comes from a block in which the phone pattern and the  *)
(* gender pattern matched, so its phone has the form (NNN) NNN-NNNN and    *)
(* its gender is Male or Female, never a placeholder.                      *)
Claim_C1 ==
    \A k \in 1..Len(providers) :
        /\ PhoneShape(providers[k].Phone)
        /\ providers[k].Gender \in {Male, Female}

(* C1, amended: every record comes from a block that contains the labels   *)
(* Phone: and Gender:; its phone either has the form (NNN) NNN-NNNN, with  *)
(* any whitespace after the closing parenthesis, or is the placeholder     *)
(* N/A, and its gender is Male, Female or the placeholder N/A.             *)
Thm_C1 ==
    \A k \in 1..Len(providers) :
        LET b == provider_blocks[AcceptedBlocks[k]]
        IN  /\ Contains(b, PhoneLabel)
            /\ Contains(b, GenderLabel)
            /\ providers[k].Phone = NA \/ PhoneShape(providers[k].Phone)
            /\ providers[k].Gender \in {Male, Female, NA}

\* a record with the placeholder phone next to a record with a real one
Witness_C1 ==
    \E j, k \in 1..Len(providers) :
        /\ providers[j].Phone = NA
        /\ providers[j].Gender = Male
        /\ PhoneShape(providers[k].Phone)

\* the records of the blocks given by their indices, in that order
RecordsOfBlocks(indices) ==
    [k \in 1..Len(indices) |-> ExtractFields(provider_blocks[indices[k]])]

\* every entry of the document is plain or is rejected by the validity gate
OnlyRejectedVariants ==
    \A i \in 1..Len(doc) :
        doc[i] \in Plain \/ doc[i].phone = "none" \/ doc[i].gender = "none"

\* the records of the plain entries whose block did not raise, in the order
\* of the document
PlainRecords ==
    LET kept(i) == doc[i] \in Plain /\ outcome[NameBlocks[i]] = "accepted"
        kept_entries == SelectSeq([i \in 1..Len(doc) |-> i], kept)
    IN  [k \in 1..Len(kept_entries) |-> PlainRecord(doc[kept_entries[k]])]

(* C2: a block that is rejected by the validity gate or that raises never  *)
(* stops the loop: every block is processed, and the returned records are  *)
(* exactly the records of the accepted blocks that did not raise, in the   *)
(* order of their blocks; well-formed entries around a corrupt one yield   *)
(* their records in the order of the document.                             *)
Thm_C2 ==
    pc = "write" =>
        /\ Len(outcome) = Len(provider_blocks)
        /\ \A i \in 1..Len(provider_blocks) :
               outcome[i] = "rejected" <=> ~PassesGate(provider_blocks[i])
        /\ providers = RecordsOfBlocks(AcceptedBlocks)
        /\ OnlyRejectedVariants => providers = PlainRecords

\* a block that raised between two blocks whose records were returned
Witness_C2 ==
    /\ pc = "write"
    /\ Len(providers) = 2
    /\ \E i, j, k \in 1..Len(outcome) :
           /\ i < j /\ j < k
           /\ outcome[i] = "accepted"
           /\ outcome[j] = "raised"
           /\ outcome[k] = "accepted"

(* C3: if text extraction fails (the input is not found or is unreadable), *)
(* the process ends with a non-zero status before parse_provider_data or   *)
(* write_to_csv is invoked, and the destination is neither created nor     *)
(* modified.                                                               *)
Thm_C3 ==
    (argc = 3 /\ pdf # "ok") =>
        /\ pc \in {"main", "extract", "exit"}
        /\ pc = "exit" => exit_status = 1
        /\ \A i \in 1..Len(called) :
               called[i] \notin {"parse_provider_data", "write_to_csv"}
        /\ ~opened
        /\ file = file0

\* a run that ended on a failed extraction, with a destination left by an
\* earlier run
Witness_C3 ==
    /\ pdf \in {"missing", "corrupt"}
    /\ pc = "exit"
    /\ called = <<"extract_text_from_pdf">>
    /\ file0 = OldFile

(* C4: with zero records write_to_csv never opens the destination, which   *)
(* is left as it was, and the run ends normally; the destination is        *)
(* written if and only if there is at least one record, and then it holds  *)
(* the header row followed by one row per record in record order.          *)
Claim_C4 ==
    Written =>
        /\ providers = <<>> => (~opened /\ file = file0 /\ exit_status = 0)
        /\ providers # <<>> =>
               /\ file.exists
               /\ ReadCsv(file.text) = <<fieldnames>> \o ProviderRows

(* C4, amended: with zero records write_to_csv never opens the             *)
(* destination, which is left as it was, and the run ends normally; the    *)
(* destination is opened for writing if and only if there is at least one  *)
(* record, and when the write completes without an I/O error it holds the  *)
(* header row followed by one row per record in record order; on an I/O    *)
(* error the run ends with status 1.                                       *)
Thm_C4 ==
    Written =>
        /\ providers = <<>> => (~opened /\ file = file0 /\ exit_status = 0)
        /\ opened <=> providers # <<>>
        /\ (providers # <<>> /\ pc = "done") =>
               /\ exit_status = 0
               /\ file.exists
               /\ ReadCsv(file.text) = <<fieldnames>> \o ProviderRows
        /\ pc = "exit" => exit_status = 1

\* a run over a document with an entry that yields no record, with a
\* destination left by an earlier run
Witness_C4 ==
    /\ pc = "done"
    /\ doc # <<>>
    /\ providers = <<>>
    /\ file0 = OldFile
    /\ file = OldFile

\* the header lines of entry i, as the document says them
SaidLines(i) == HeaderSaid(doc[i].hdr)

\* whether a telemedicine line is among the header lines of entry i
SaysTelemedicine(i) ==
    \E n \in 1..Len(SaidLines(i)) : SaidLines(i)[n] \in TelemedicineLines

(* C5: for every accepted block whose header block has a line containing   *)
(* telemedicine in any letter case, serviceType is "Telemedicine" and      *)
(* medicalGroup is the first header line without telemedicine, or "N/A"    *)
(* if every header line contains it.                                       *)
Claim_C5 ==
    \A i \in 1..Len(doc) : \A r \in RecordsOfEntry(i) :
        SaysTelemedicine(i) =>
            LET other == {n \in 1..Len(SaidLines(i)) :
                             SaidLines(i)[n] \notin TelemedicineLines}
            IN  /\ r.ServiceType = TelemedicineCap
                /\ r.MedicalGroup = IF other = {} THEN NA
                                    ELSE SaidLines(i)[SetMin(other)]

(* C6: for every accepted block whose non-empty header block has no        *)
(* telemedicine line, medicalGroup is the first header line, and           *)
(* serviceType is the remaining header lines that are not distance         *)
(* artifacts, in order, joined by single spaces.                           *)
Thm_C6 ==
    \A i \in 1..Len(doc) : \A r \in RecordsOfEntry(i) :
        (SaidLines(i) # <<>> /\ ~SaysTelemedicine(i)) =>
            LET NotArtifact(l) == l \notin DistanceArtifacts
            IN  /\ r.MedicalGroup = SaidLines(i)[1]
                /\ r.ServiceType =
                       Join(SelectSeq(Tail(SaidLines(i)), NotArtifact), <<" ">>)

\* the record of an entry whose header has a distance artifact between two
\* lines that are kept
Witness_C6 ==
    \E i \in 1..Len(doc) : \E r \in RecordsOfEntry(i) :
        /\ doc[i].hdr = "near"
        /\ r.MedicalGroup = AcmeClinic
        /\ r.ServiceType = FiveMiles \o <<" ">> \o Suite

(* C7: for every accepted block with a Specialties: anchor followed by     *)
(* items separated by commas over one or more lines, specialties is the    *)
(* items joined by " - ", whether the items are followed by a blank line,  *)
(* by Group Affiliations:, or are the last text of the block.              *)
Claim_C7 ==
    \A i \in 1..Len(doc) : \A r \in RecordsOfEntry(i) :
        doc[i].spec \in {"blank", "affil", "last"} =>
            r.Specialties = CardiologyPediatrics

(* C8: for every accepted block with a Languages Spoken: anchor,           *)
(* languagesSpoken is the rest of that line, cut before a Specialties:     *)
(* token on the same line, with ", " replaced by " & ", and never contains *)
(* Specialties:.                                                           *)
Claim_C8 ==
    \A i \in 1..Len(doc) : \A r \in RecordsOfEntry(i) :
        /\ doc[i].lang \in {"two", "bleed"} => r.LanguagesSpoken = EnglishAndSpanish
        /\ doc[i].lang = "empty" => r.LanguagesSpoken = <<>>
        /\ ~Contains(r.LanguagesSpoken, SpecialtiesLabel)

\* the loop body has run on the block of entry i
Processed(i) == i <= Len(NameBlocks) /\ NameBlocks[i] <= Len(outcome)

(* C9: a record whose block has no Languages Spoken: anchor has            *)
(* languagesSpoken "N/A", and one whose block has no Specialties: anchor   *)
(* has specialties "N/A"; the block is still accepted and the other fields *)
(* of the record are what they are when the anchor is there.               *)
Thm_C9 ==
    /\ \A k \in 1..Len(providers) :
           LET b == provider_blocks[AcceptedBlocks[k]]
           IN  /\ ~Contains(b, LanguagesLabel) => providers[k].LanguagesSpoken = NA
               /\ ~Contains(b, SpecialtiesLabel) => providers[k].Specialties = NA
    /\ \A i \in 1..Len(doc) :
           /\ doc[i] = AtPosition([Base EXCEPT !.lang = "none"], i) =>
                  /\ Processed(i) => outcome[NameBlocks[i]] # "rejected"
                  /\ \A r \in RecordsOfEntry(i) :
                         r = [PlainRecord(AtPosition(Base, i)) EXCEPT !.LanguagesSpoken = NA]
           /\ doc[i] = AtPosition([Base EXCEPT !.spec = "none"], i) =>
                  /\ Processed(i) => outcome[NameBlocks[i]] # "rejected"
                  /\ \A r \in RecordsOfEntry(i) :
                         r = [PlainRecord(AtPosition(Base, i)) EXCEPT !.Specialties = NA]

\* the record of an entry printed without a Languages Spoken line
Witness_C9 ==
    \E i \in 1..Len(doc) : \E r \in RecordsOfEntry(i) :
        /\ doc[i].lang = "none"
        /\ ~Contains(provider_blocks[NameBlocks[i]], LanguagesLabel)
        /\ r.LanguagesSpoken = NA
        /\ r.Specialties = CardiologyPediatrics

\* whether the block begins with a boundary line: one line of name
\* characters that ends in ", MD" or ", DO"
BeginsWithBoundaryLine(block) ==
    LET nl == Find(block, NL, 1)
        line == SubSeq(block, 1, nl - 1)
    IN  /\ nl > 5
        /\ AllIn(line, 1, Len(line), NameChar \ {"\n"})
        /\ SubSeq(line, Len(line) - 3, Len(line)) \in {CommaSpace \o MD, CommaSpace \o DO}

(* C10: the segmenter splits only immediately before a boundary line:      *)
(* every block after the first begins with a boundary line, no block is    *)
(* empty, and no entry is divided between two blocks.                      *)
Claim_C10 ==
    /\ Len(provider_blocks) <= Len(pre) + Len(doc) + 1
    /\ \A i \in 1..Len(provider_blocks) :
           /\ provider_blocks[i] # <<>>
           /\ i > 1 => BeginsWithBoundaryLine(provider_blocks[i])

====
